---- MODULE Spec2Model ----
(***************************************************************************)
(* LifeVault frontend: the wallet authentication flow.                     *)
(*                                                                         *)
(* The repository holds two wallet contexts: the SDK-backed one            *)
(* (src/src/context/WalletContext.tsx, variant "sdk") and the hand-rolled  *)
(* one over walletService (src/unnamed/part_000, variant "hand").  An      *)
(* application is built with one of them; `variant` says which.  Both      *)
(* talk to the backend through the shared axios client of                  *)
(* src/src/services/api.js, whose interceptors are modelled here too.      *)
(* The memories hook (src/src/hooks/useMemories.js) uses the same client.  *)
(*                                                                         *)
(* Every `await` of the source is a suspension point: an attempt's `pc`    *)
(* names the external call it is suspended on, and the provider's or the   *)
(* backend's answer is an action of its own.  Code between two awaits      *)
(* runs to completion in one step (JavaScript's run-to-completion).        *)
(***************************************************************************)
EXTENDS Integers, Sequences, FiniteSets, TLC

VARIABLES
    variant,          \* "sdk" | "hand": which WalletContext the app uses
    installed,        \* the wallet extension is installed in the browser
    wallet,           \* the provider's account for this site, 0 = none
    isPetraInstalled, \* React state
    isConnected,      \* React state (sdk: connected)
    isConnecting,     \* React state (sdk: connecting)
    address,          \* React state (sdk: account.address), 0 = null
    publicKey,        \* React state (sdk: account.publicKey), 0 = null
    network,          \* React state, 0 = null
    mounted,          \* the mount effect / autoConnect has run
    token,            \* localStorage['token']
    location,         \* window.location.href
    att,              \* the calls made: authenticate, link, or another
                      \* request through the api client
    now,              \* Date.now()
    loginMsg,         \* the last login challenge built, with its address
    linkMsg,          \* the last link challenge built, with its address
    modal,            \* WalletAuthModal: its props, state and pending calls
    issued,           \* the sign requests made so far, with their nonces
    mem               \* useMemories: its state and the calls made on it

walletVars == <<variant, installed, wallet, isPetraInstalled, isConnected,
                isConnecting, address, publicKey, network, mounted, token,
                location, att>>

challengeVars == <<now, loginMsg, linkMsg, issued>>

vars == <<walletVars, challengeVars, modal, mem>>

-----------------------------------------------------------------------------
(* Bounds of the model *)

MaxAttempts == 2
NumAccounts == 2
MaxTime == 3
MaxPending == 2
MaxSigns == 3
MaxCalls == 2
NumMemories == 2

Attempts == 1..MaxAttempts
Accounts == 1..NumAccounts
Networks == {1}
Tokens == {"tok1", "tok2"}
Variants == {"sdk", "hand"}
Kinds == {"login", "link"}       \* the two kinds of wallet attempt
Nonces == {"n1", "n2"}           \* what a sign result may carry as nonce

-----------------------------------------------------------------------------
(* JavaScript values *)

UNDEF == "<undefined>"         \* undefined
NULL == "<null>"
NoToken == "<absent>"          \* localStorage.getItem gives null
NoHeader == "<no header>"      \* config.headers has no Authorization
Unauthorized == 401

\* a || b
Or(a, b) == IF a = UNDEF \/ a = NULL \/ a = "" THEN b ELSE a

\* localStorage.setItem stores the string form of its argument
ToStorage(v) == IF v = UNDEF THEN "undefined" ELSE v

\* An account's public key.  Addresses are 1..NumAccounts, the key of
\* address n is written NumAccounts + n; 0 is null for both.
KeyOf(acc) == NumAccounts + acc

\* What a rejected external call throws.  status 0: no HTTP response.
\* The provider throws an Error with a message, or a value without one (the
\* wallet adapter throws bare strings); the values are never null/undefined.
ProviderErrors ==
    { [status |-> 0, data_message |-> UNDEF, message |-> m] :
        m \in {"User rejected the request", UNDEF} }

\* axios: a non-2xx answer with or without a message in its payload, or
\* no answer at all; an AxiosError always has a message.
HttpErrors ==
    { [status |-> s, data_message |-> d, message |-> "Request failed"] :
        s \in {400, Unauthorized}, d \in {"Invalid signature", UNDEF} }
    \cup { [status |-> 0, data_message |-> UNDEF, message |-> "Network Error"] }

\* 2xx answers: body {data:{token}}, {data:{}} (token undefined), or a
\* body without data (response.data.data is undefined).
OkResponses ==
    { [status |-> 200, body |-> "token", token |-> t] : t \in Tokens }
    \cup { [status |-> 200, body |-> "empty", token |-> UNDEF],
           [status |-> 200, body |-> "nodata", token |-> UNDEF] }

Pending == [state |-> "pending", success |-> FALSE, token |-> UNDEF, error |-> UNDEF]
Ok(t) == [state |-> "resolved", success |-> TRUE, token |-> t, error |-> UNDEF]
Fail(e) == [state |-> "resolved", success |-> FALSE, token |-> UNDEF, error |-> e]
Thrown == [state |-> "rejected", success |-> FALSE, token |-> UNDEF, error |-> UNDEF]
Rejected(e) == [state |-> "rejected", success |-> FALSE, token |-> UNDEF, error |-> e]

\* No sign result yet.
NoSignResult ==
    [ signature |-> 0, fullMessage |-> [purpose |-> "", address |-> 0],
      nonce |-> "" ]

\* No request made: no url, a body without fields.
NoPost == [url |-> "", body |-> <<>>]

NoAttempt ==
    [ kind |-> "none", pc |-> "idle",
      capConnected |-> FALSE, capAddress |-> 0, capPublicKey |-> 0,
      currentAddress |-> 0, signed |-> NoSignResult, post |-> NoPost,
      authorization |-> NoHeader,
      connectCalls |-> 0, signCalls |-> 0, postCalls |-> 0,
      failStep |-> "none", changedInVerify |-> FALSE,
      result |-> Pending ]

-----------------------------------------------------------------------------
NoMessage == [address |-> "", message |-> ""]

WalletInit ==
    /\ variant \in Variants
    /\ installed \in BOOLEAN
    /\ wallet \in (IF installed THEN 0..NumAccounts ELSE {0})
    /\ isPetraInstalled = FALSE
    /\ isConnected = FALSE
    /\ isConnecting = FALSE
    /\ address = 0
    /\ publicKey = 0
    /\ network = 0
    /\ mounted = FALSE
    /\ token \in {NoToken, "tok0"}
    /\ location = "/"
    /\ att = [a \in Attempts |-> NoAttempt]

ChallengeInit ==
    /\ now = 0
    /\ loginMsg = NoMessage
    /\ linkMsg = NoMessage
    /\ issued = <<>>

\* The modal as first rendered: closed, useState('connect'), useState(false),
\* useState(null), nothing pending.
ModalInit ==
    modal = [ isOpen |-> FALSE, step |-> "connect", loading |-> FALSE,
              error |-> NULL, connectPending |-> 0, signPending |-> 0,
              timers |-> 0 ]

\* No response received.
NoResponse == [body |-> "none", memories |-> <<>>, pagination |-> <<>>]

\* A call not yet made; id 0 is the id of no memory.
NoCall ==
    [ kind |-> "none", pc |-> "idle", id |-> 0, seq |-> 0,
      resp |-> NoResponse, result |-> Pending ]

\* useState({page: 1, limit: 20, total: 0, pages: 0})
InitialPagination == [page |-> 1, limit |-> 20, total |-> 0, pages |-> 0]

\* useMemories as first rendered: useState([]), useState(true),
\* useState(null), the pagination above, useState(null); the mount effect
\* has not run.
MemoriesInit ==
    mem = [ memories |-> <<>>, loading |-> TRUE, error |-> NULL,
            pagination |-> InitialPagination, stats |-> NULL,
            mounted |-> FALSE, fetches |-> 0, statsPending |-> 0,
            calls |-> [c \in 1..MaxCalls |-> NoCall] ]

Init == WalletInit /\ ChallengeInit /\ ModalInit /\ MemoriesInit

-----------------------------------------------------------------------------
(* The shared api client: src/src/services/api.js *)

\* Mutant: the header is written whatever getItem gave.
RequestInterceptorAlways(tok) == "Bearer " \o tok

\* The request interceptor: `if (token) config.headers.Authorization =
\* `Bearer ${token}``, with the token localStorage holds when the request
\* is sent.
RequestInterceptor(tok) ==
    IF tok # NoToken /\ tok # "" THEN "Bearer " \o tok ELSE NoHeader

\* Mutant: every failed response removes the token.
ResponseInterceptorClearsAlways(err, tok, loc) ==
    [ token    |-> NoToken,
      location |-> IF err.status = Unauthorized THEN "/login" ELSE loc,
      settled  |-> "rejected" ]

\* Mutant: the 401 branch redirects but leaves the token in the store.
ResponseInterceptorKeepsToken(err, tok, loc) ==
    [ token    |-> tok,
      location |-> IF err.status = Unauthorized THEN "/login" ELSE loc,
      settled  |-> "rejected" ]

\* The response interceptor's error handler: on a 401 the token is removed
\* and the page is sent to /login; the error is rejected to the caller.
ResponseInterceptor(err, tok, loc) ==
    [ token    |-> IF err.status = Unauthorized THEN NoToken ELSE tok,
      location |-> IF err.status = Unauthorized THEN "/login" ELSE loc,
      settled  |-> "rejected" ]

-----------------------------------------------------------------------------
(* The wallet session *)

\* hand: checkWallet, run once after mount.  sdk: the adapter's
\* autoConnect, which restores a wallet the site was connected to.
MountCheck ==
    /\ ~mounted
    /\ mounted' = TRUE
    /\ isPetraInstalled' = IF variant = "hand" THEN installed ELSE TRUE
    /\ IF installed /\ wallet # 0
         THEN /\ isConnected' = TRUE
              /\ address' = wallet
              /\ publicKey' = KeyOf(wallet)
              /\ network' \in Networks
         ELSE UNCHANGED <<isConnected, address, publicKey, network>>
    /\ UNCHANGED <<mem, challengeVars, modal, variant, installed, wallet, isConnecting,
                   token, location, att>>

\* Mutant: a null account clears the address and the key only.
OnAccountChangeKeepsFlag(acc) ==
    /\ address' = acc
    /\ publicKey' = IF acc # 0 THEN KeyOf(acc) ELSE 0
    /\ isConnected' = IF acc # 0 THEN TRUE ELSE isConnected
    /\ UNCHANGED network

\* The handler given to walletService.onAccountChange (hand), the adapter's
\* own account state (sdk).
OnAccountChange(acc) ==
    IF acc # 0
      THEN /\ address' = acc
           /\ publicKey' = KeyOf(acc)
           /\ isConnected' = TRUE
           /\ UNCHANGED network
      ELSE /\ address' = 0
           /\ publicKey' = 0
           /\ isConnected' = FALSE
           /\ network' = IF variant = "sdk" THEN 0 ELSE network

\* The user switches account in the wallet (acc = 0: revokes the site).
\* The hand-rolled context hears of it only once its subscription effect
\* has run, i.e. once isPetraInstalled is true.
AccountChange(acc) ==
    /\ installed
    /\ wallet # 0
    /\ acc # wallet
    /\ wallet' = acc
    /\ IF variant = "sdk" \/ isPetraInstalled
         THEN OnAccountChange(acc)
         ELSE UNCHANGED <<isConnected, address, publicKey, network>>
    /\ att' = [a \in Attempts |->
                 IF att[a].pc = "verifying" /\ att[a].kind \in Kinds
                   THEN [att[a] EXCEPT !.changedInVerify = TRUE]
                   ELSE att[a]]
    /\ UNCHANGED <<mem, challengeVars, modal, variant, installed, isPetraInstalled, isConnecting, mounted,
                   token, location>>

-----------------------------------------------------------------------------
(* authenticateWithWallet / linkWalletToAccount *)

GenericMessage(kind) ==
    IF kind = "login" THEN "Authentication failed" ELSE "Failed to link wallet"

\* Mutant: the catch handles HTTP errors only and rethrows the rest.
SdkCatchRethrows(kind, err) ==
    IF err.status = 0
      THEN Thrown
      ELSE Fail(Or(Or(err.data_message, err.message), GenericMessage(kind)))

\* sdk: the catch blocks of authenticateWithWallet and linkWalletToAccount
SdkCatch(kind, err) ==
    Fail(Or(Or(err.data_message, err.message), GenericMessage(kind)))

\* hand: the catch blocks of authenticateWithWallet and linkWalletToAccount
HandCatch(kind, err) ==
    Fail(Or(err.data_message, err.message))

Catch(kind, err) ==
    IF variant = "sdk" THEN SdkCatch(kind, err) ELSE HandCatch(kind, err)

\* hand: connect()'s catch and the `if (!connectResult.success)` return
ConnectFailed(err) == Fail(err.message)

\* The call returns: its promise settles and its closure is gone.
Finish(r, step, res) ==
    [r EXCEPT !.pc = "done", !.failStep = step, !.result = res,
              !.capConnected = FALSE, !.capAddress = 0, !.capPublicKey = 0,
              !.currentAddress = 0, !.signed = NoSignResult,
              !.post = NoPost, !.authorization = NoHeader]

\* Mutant: the sign is requested without looking at the address.
BeginSignUnchecked(r, addr) ==
    [r EXCEPT !.currentAddress = addr, !.pc = "signing", !.signCalls = @ + 1]

\* From `const currentAddress = ...` to the await of the sign call.
\* sdk: signMessage throws before asking the provider when the closure
\* holds no connected account.
BeginSign(r, addr) ==
    IF addr = 0
      THEN Finish(r, "noaddress",
                  Fail(IF variant = "sdk" THEN "No wallet connected"
                                          ELSE "No wallet address"))
    ELSE IF variant = "sdk" /\ (~r.capConnected \/ r.capAddress = 0)
      THEN Finish(r, "sign",
                  SdkCatch(r.kind, [status |-> 0, data_message |-> UNDEF,
                                    message |-> "Wallet not connected"]))
    ELSE [r EXCEPT !.currentAddress = addr, !.pc = "signing",
                   !.signCalls = @ + 1]

\* Mutant: the wallet is asked to connect on every call.
NeedsConnectAlways(conn, addr) == TRUE

\* The test that opens authenticateWithWallet and linkWalletToAccount:
\* sdk `if (!connected || !account)`, hand `if (!address)`.
NeedsConnect(conn, addr) ==
    IF variant = "sdk" THEN ~conn \/ addr = 0 ELSE addr = 0

\* The call itself, up to its first await.  The callback closes over the
\* state of the render it was created in.
StartAttempt(a, k) ==
    /\ att[a].kind = "none"
    /\ \A b \in Attempts : b < a => att[b].kind # "none"
    /\ LET r == [att[a] EXCEPT !.kind = k, !.capConnected = isConnected,
                               !.capAddress = address,
                               !.capPublicKey = publicKey]
       IN IF NeedsConnect(isConnected, address)
            THEN /\ att' = [att EXCEPT ![a] =
                              [r EXCEPT !.pc = "connecting",
                                        !.connectCalls = @ + 1]]
                 /\ isConnecting' = TRUE
            ELSE /\ att' = [att EXCEPT ![a] = BeginSign(r, address)]
                 /\ UNCHANGED isConnecting
    /\ UNCHANGED <<mem, challengeVars, modal, variant, installed, wallet, isPetraInstalled, isConnected,
                   address, publicKey, network, mounted, token, location>>

\* Any other request through the api client (memoryAPI, authAPI).
SendRequest(a) ==
    /\ att[a].kind = "none"
    /\ \A b \in Attempts : b < a => att[b].kind # "none"
    /\ att' = [att EXCEPT ![a] =
                 [@ EXCEPT !.kind = "request", !.pc = "verifying",
                           !.authorization = RequestInterceptor(token),
                           !.postCalls = @ + 1]]
    /\ UNCHANGED <<mem, challengeVars, modal, variant, installed, wallet, isPetraInstalled, isConnected,
                   isConnecting, address, publicKey, network, mounted, token,
                   location>>

\* sdk: what follows `await aptosConnect(...)`: connect() itself returns;
\* an attempt goes on to its 500 ms sleep.
AfterConnect(r) ==
    IF r.kind = "connect" THEN Finish(r, "none", Ok(UNDEF))
                          ELSE [r EXCEPT !.pc = "delay"]

\* The provider connects the site to account acc.
\* hand: walletService.connect() resolved; connect() sets the state and
\* awaits walletService.getNetwork().
\* sdk: the adapter sets connected/account/network itself; the attempt
\* goes on to its 500 ms sleep.  With no extension the adapter's connect
\* returns without connecting.
ConnectResolve(a, acc) ==
    /\ att[a].pc = "connecting"
    /\ IF installed
         THEN /\ (wallet # 0 => acc = wallet)
              /\ wallet' = acc
              /\ isConnected' = TRUE
              /\ address' = acc
              /\ publicKey' = KeyOf(acc)
              /\ IF variant = "sdk"
                   THEN /\ network' \in Networks
                        /\ isConnecting' = FALSE
                        /\ att' = [att EXCEPT ![a] = AfterConnect(@)]
                   ELSE /\ UNCHANGED <<network, isConnecting>>
                        /\ att' = [att EXCEPT ![a].pc = "getnet"]
         ELSE /\ variant = "sdk"
              /\ acc = 1
              /\ isConnecting' = FALSE
              /\ att' = [att EXCEPT ![a] = AfterConnect(@)]
              /\ UNCHANGED <<wallet, isConnected, address, publicKey, network>>
    /\ UNCHANGED <<mem, challengeVars, modal, variant, installed, isPetraInstalled, mounted, token,
                   location>>

\* Mutant: a rejected connect is swallowed and the attempt goes on to sign.
ConnectRejectGoesOn(a, err) ==
    /\ att[a].pc = "connecting"
    /\ isConnecting' = FALSE
    /\ att' = [att EXCEPT ![a] =
                 [@ EXCEPT !.pc = "signing", !.signCalls = @ + 1]]
    /\ UNCHANGED <<mem, challengeVars, modal, variant, installed, wallet, isPetraInstalled, isConnected,
                   address, publicKey, network, mounted, token, location>>

\* The provider's connect rejected (user declined, no extension, ...).
ConnectReject(a, err) ==
    /\ att[a].pc = "connecting"
    /\ isConnecting' = FALSE
    /\ att' = [att EXCEPT ![a] =
                 Finish(@, "connect",
                        IF variant = "hand" THEN ConnectFailed(err)
                        ELSE IF @.kind = "connect" THEN Rejected(err.message)
                        ELSE SdkCatch(@.kind, err))]
    /\ UNCHANGED <<mem, challengeVars, modal, variant, installed, wallet, isPetraInstalled, isConnected,
                   address, publicKey, network, mounted, token, location>>

\* hand: getNetwork resolved; connect() returns success and the attempt
\* reads `address || walletService.getAddress()`.
GetNetworkResolve(a, net) ==
    /\ att[a].pc = "getnet"
    /\ network' = net
    /\ isConnecting' = FALSE
    /\ att' = [att EXCEPT ![a] =
                 IF @.kind = "connect"
                   THEN Finish(@, "none", Ok(UNDEF))
                   ELSE BeginSign(@, IF @.capAddress # 0 THEN @.capAddress
                                                         ELSE wallet)]
    /\ UNCHANGED <<mem, challengeVars, modal, variant, installed, wallet, isPetraInstalled, isConnected,
                   address, publicKey, mounted, token, location>>

\* hand: getNetwork rejected inside connect()'s try.
GetNetworkReject(a, err) ==
    /\ att[a].pc = "getnet"
    /\ isConnecting' = FALSE
    /\ att' = [att EXCEPT ![a] = Finish(@, "connect", ConnectFailed(err))]
    /\ UNCHANGED <<mem, challengeVars, modal, variant, installed, wallet, isPetraInstalled, isConnected,
                   address, publicKey, network, mounted, token, location>>

\* sdk: the 500 ms sleep is over; `const currentAccount = account` reads
\* the account the callback closed over.
DelayElapsed(a) ==
    /\ att[a].pc = "delay"
    /\ att' = [att EXCEPT ![a] = BeginSign(@, @.capAddress)]
    /\ UNCHANGED <<mem, challengeVars, modal, variant, installed, wallet, isPetraInstalled, isConnected,
                   isConnecting, address, publicKey, network, mounted, token,
                   location>>

\* What the sign call resolves to: the signature of the account the wallet
\* holds, over the message of this attempt, with the nonce of the request.
SignResults(r) ==
    { [ signature   |-> wallet,
        fullMessage |-> [purpose |-> r.kind, address |-> r.currentAddress],
        nonce       |-> n ] : n \in Nonces }

\* Mutant: both operations post to the login endpoint.
EndpointLoginOnly(kind) == "/auth/wallet"

\* The first argument of api.post
Endpoint(kind) ==
    IF kind = "login" THEN "/auth/wallet" ELSE "/auth/link-wallet"

\* Mutant: the body takes the address of the latest render.
PostBodyLiveAddress(r, signResult) ==
    [ address   |-> address,
      publicKey |-> r.capPublicKey,
      signature |-> signResult.signature,
      message   |-> signResult.fullMessage,
      nonce     |-> signResult.nonce ]

\* The body of the POST, built when the sign call has resolved.
PostBody(r, signResult) ==
    [ address   |-> r.currentAddress,
      publicKey |-> IF variant = "sdk" \/ r.capPublicKey # 0
                      THEN r.capPublicKey
                      ELSE KeyOf(wallet),
      signature |-> signResult.signature,
      message   |-> signResult.fullMessage,
      nonce     |-> signResult.nonce ]

SendPost(r, signResult) ==
    [r EXCEPT !.pc = "verifying",
              !.signed = signResult,
              !.post = [url |-> Endpoint(r.kind),
                        body |-> PostBody(r, signResult)],
              !.authorization = RequestInterceptor(token),
              !.postCalls = @ + 1]

\* The provider signed; the POST is sent in the same turn.
SignResolve(a, signResult) ==
    /\ att[a].pc = "signing"
    /\ wallet # 0
    /\ signResult \in SignResults(att[a])
    /\ att' = [att EXCEPT ![a] = SendPost(@, signResult)]
    /\ UNCHANGED <<mem, challengeVars, modal, variant, installed, wallet, isPetraInstalled, isConnected,
                   isConnecting, address, publicKey, network, mounted, token,
                   location>>

\* Mutant: a rejected signature is handled as a lost connection.
SignRejectClearsSession(a, err) ==
    /\ att[a].pc = "signing"
    /\ att' = [att EXCEPT ![a] = Finish(@, "sign", Catch(@.kind, err))]
    /\ isConnected' = FALSE
    /\ address' = 0
    /\ publicKey' = 0
    /\ UNCHANGED <<mem, challengeVars, modal, variant, installed, wallet, isPetraInstalled,
                   isConnecting, network, mounted, token, location>>

\* Mutant: a rejected signature is asked for again.
SignRejectedRetries(r, err) == [r EXCEPT !.signCalls = @ + 1]

\* The provider's sign rejected.
SignRejected(r, err) == Finish(r, "sign", Catch(r.kind, err))

SignReject(a, err) ==
    /\ att[a].pc = "signing"
    /\ att' = [att EXCEPT ![a] = SignRejected(@, err)]
    /\ UNCHANGED <<mem, challengeVars, modal, variant, installed, wallet, isPetraInstalled, isConnected,
                   isConnecting, address, publicKey, network, mounted, token,
                   location>>

\* Mutant: the token is stored before the response is looked into.
LoginSucceededStoresFirst(r, resp, tok) ==
    IF resp.body = "nodata"
      THEN [ att |-> Finish(r, "parse",
                            Catch(r.kind,
                                  [status |-> 0, data_message |-> UNDEF,
                                   message |-> "Cannot read properties of undefined"])),
             token |-> "tok1" ]
      ELSE [ att |-> Finish(r, "none", Ok(resp.token)),
             token |-> ToStorage(resp.token) ]

\* Mutant: the login succeeds without storing the token.
LoginSucceededNoStore(r, resp, tok) ==
    [ att |-> Finish(r, "none", Ok(resp.token)), token |-> tok ]

\* login: `const { token } = response.data.data; localStorage.setItem(...)`.
\* A body without data makes the destructuring throw inside the try.
LoginSucceeded(r, resp, tok) ==
    IF resp.body = "nodata"
      THEN [ att |-> Finish(r, "parse",
                            Catch(r.kind,
                                  [status |-> 0, data_message |-> UNDEF,
                                   message |-> "Cannot read properties of undefined"])),
             token |-> tok ]
      ELSE [ att |-> Finish(r, "none", Ok(resp.token)),
             token |-> ToStorage(resp.token) ]

\* Mutant: the link stores the response's token as the login does.
LinkSucceededStores(r, resp, tok) ==
    [ att |-> Finish(r, "none", Ok(UNDEF)), token |-> ToStorage(resp.token) ]

\* link: `return { success: true }`
LinkSucceeded(r, resp, tok) ==
    [ att |-> Finish(r, "none", Ok(UNDEF)), token |-> tok ]

\* another request: the promise of api.get/post fulfils
RequestSucceeded(r, resp, tok) ==
    [ att |-> Finish(r, "none", Ok(UNDEF)), token |-> tok ]

\* The backend answered 2xx.
PostOk(a, resp) ==
    /\ att[a].pc = "verifying"
    /\ LET s == CASE att[a].kind = "login" -> LoginSucceeded(att[a], resp, token)
                  [] att[a].kind = "link" -> LinkSucceeded(att[a], resp, token)
                  [] OTHER -> RequestSucceeded(att[a], resp, token)
       IN /\ att' = [att EXCEPT ![a] = s.att]
          /\ token' = s.token
    /\ UNCHANGED <<mem, challengeVars, modal, variant, installed, wallet, isPetraInstalled, isConnected,
                   isConnecting, address, publicKey, network, mounted,
                   location>>

\* The backend answered non-2xx, or not at all: the response interceptor
\* runs, then the attempt's catch.
PostError(a, err) ==
    /\ att[a].pc = "verifying"
    /\ LET i == ResponseInterceptor(err, token, location) IN
         /\ token' = i.token
         /\ location' = i.location
         /\ att' = [att EXCEPT ![a] =
                      Finish(@, "post",
                             IF i.settled = "rejected"
                               THEN (IF @.kind \in Kinds THEN Catch(@.kind, err)
                                                         ELSE Thrown)
                               ELSE Ok(UNDEF))]
    /\ UNCHANGED <<mem, challengeVars, modal, variant, installed, wallet, isPetraInstalled, isConnected,
                   isConnecting, address, publicKey, network, mounted>>

-----------------------------------------------------------------------------
Next ==
    \/ MountCheck
    \/ \E acc \in 0..NumAccounts : AccountChange(acc)
    \/ \E a \in Attempts, k \in Kinds : StartAttempt(a, k)
    \/ \E a \in Attempts : SendRequest(a)
    \/ \E a \in Attempts, acc \in Accounts : ConnectResolve(a, acc)
    \/ \E a \in Attempts, err \in ProviderErrors : ConnectReject(a, err)
    \/ \E a \in Attempts, net \in Networks : GetNetworkResolve(a, net)
    \/ \E a \in Attempts, err \in ProviderErrors : GetNetworkReject(a, err)
    \/ \E a \in Attempts : DelayElapsed(a)
    \/ \E a \in Attempts : \E signResult \in SignResults(att[a]) :
          SignResolve(a, signResult)
    \/ \E a \in Attempts, err \in ProviderErrors : SignReject(a, err)
    \/ \E a \in Attempts, resp \in OkResponses : PostOk(a, resp)
    \/ \E a \in Attempts, err \in HttpErrors : PostError(a, err)

Spec == Init /\ [][Next]_vars

-----------------------------------------------------------------------------
(* disconnect() and signMessage() called on their own *)

\* walletService.disconnect: a no-op that never fails when there is nothing
\* to disconnect.
WalletServiceDisconnectFails(w) == FALSE

\* walletService.signMessage requires a connected account and fails with a
\* not-connected error, before asking the wallet, when it has none.
WalletServiceNotConnected(w) == w = 0

\* connect() called on its own, up to the await of the provider's connect.
CallConnect(a) ==
    /\ att[a].kind = "none"
    /\ \A b \in Attempts : b < a => att[b].kind # "none"
    /\ isConnecting' = TRUE
    /\ att' = [att EXCEPT ![a] =
                 [@ EXCEPT !.kind = "connect", !.pc = "connecting",
                           !.connectCalls = @ + 1]]
    /\ UNCHANGED <<mem, challengeVars, modal, variant, installed, wallet, isPetraInstalled,
                   isConnected, address, publicKey, network, mounted, token,
                   location>>

\* disconnect(): both contexts await the provider's disconnect first.
CallDisconnect(a) ==
    /\ att[a].kind = "none"
    /\ \A b \in Attempts : b < a => att[b].kind # "none"
    /\ att' = [att EXCEPT ![a] =
                 [@ EXCEPT !.kind = "disconnect", !.pc = "disconnecting"]]
    /\ UNCHANGED <<mem, challengeVars, modal, variant, installed, wallet, isPetraInstalled, isConnected,
                   isConnecting, address, publicKey, network, mounted, token,
                   location>>

\* What disconnect leaves in `network`: the adapter (sdk) drops it with the
\* account; the hand-rolled disconnect has no setNetwork.
ClearedNetwork(net) == IF variant = "sdk" THEN 0 ELSE net

\* The provider has disconnected the site.  sdk: the adapter drops
\* connected/account/network.  hand: the three setters after the await.
DisconnectResolve(a) ==
    /\ att[a].pc = "disconnecting"
    /\ wallet' = 0
    /\ isConnected' = FALSE
    /\ address' = 0
    /\ publicKey' = 0
    /\ network' = ClearedNetwork(network)
    /\ att' = [att EXCEPT ![a] = Finish(@, "none", Ok(UNDEF))]
    /\ UNCHANGED <<mem, challengeVars, modal, variant, installed, isPetraInstalled, isConnecting,
                   mounted, token, location>>

\* The provider's disconnect rejected, having no wallet to disconnect.
\* sdk: the catch logs and rethrows.  hand: no catch, the rejection leaves
\* the function before its setters.
DisconnectReject(a, err) ==
    /\ att[a].pc = "disconnecting"
    /\ wallet = 0
    /\ variant = "hand" => WalletServiceDisconnectFails(wallet)
    /\ att' = [att EXCEPT ![a] = Finish(@, "disconnect", Rejected(err.message))]
    /\ UNCHANGED <<mem, challengeVars, modal, variant, installed, wallet, isPetraInstalled, isConnected,
                   isConnecting, address, publicKey, network, mounted, token,
                   location>>

\* Mutant: signMessage has no guard of its own.
NotConnectedGuardOff(conn, addr, w) == FALSE

\* sdk: `if (!connected || !account) throw new Error('Wallet not connected')`.
\* hand: signMessage hands the message to walletService.signMessage.
NotConnectedGuard(conn, addr, w) ==
    IF variant = "sdk" THEN ~conn \/ addr = 0
                       ELSE WalletServiceNotConnected(w)

\* signMessage(message), up to its first await.
CallSignMessage(a) ==
    /\ att[a].kind = "none"
    /\ \A b \in Attempts : b < a => att[b].kind # "none"
    /\ att' = [att EXCEPT ![a] =
                 IF NotConnectedGuard(isConnected, address, wallet)
                   THEN Finish([@ EXCEPT !.kind = "sign"], "guard",
                               Rejected("Wallet not connected"))
                   ELSE [@ EXCEPT !.kind = "sign", !.pc = "signing-message",
                                  !.signCalls = @ + 1]]
    /\ UNCHANGED <<mem, challengeVars, modal, variant, installed, wallet, isPetraInstalled, isConnected,
                   isConnecting, address, publicKey, network, mounted, token,
                   location>>

\* The provider signed: signMessage returns {signature, fullMessage, nonce}.
SignMessageResolve(a) ==
    /\ att[a].pc = "signing-message"
    /\ wallet # 0
    /\ att' = [att EXCEPT ![a] = Finish(@, "none", Ok(UNDEF))]
    /\ UNCHANGED <<mem, challengeVars, modal, variant, installed, wallet, isPetraInstalled, isConnected,
                   isConnecting, address, publicKey, network, mounted, token,
                   location>>

\* The provider's sign rejected: signMessage has no catch.
SignMessageReject(a, err) ==
    /\ att[a].pc = "signing-message"
    /\ att' = [att EXCEPT ![a] = Finish(@, "sign", Rejected(err.message))]
    /\ UNCHANGED <<mem, challengeVars, modal, variant, installed, wallet, isPetraInstalled, isConnected,
                   isConnecting, address, publicKey, network, mounted, token,
                   location>>

SessionNext ==
    \/ MountCheck
    \/ \E acc \in 0..NumAccounts : AccountChange(acc)
    \/ \E a \in Attempts : CallConnect(a)
    \/ \E a \in Attempts, acc \in Accounts : ConnectResolve(a, acc)
    \/ \E a \in Attempts, err \in ProviderErrors : ConnectReject(a, err)
    \/ \E a \in Attempts, net \in Networks : GetNetworkResolve(a, net)
    \/ \E a \in Attempts, err \in ProviderErrors : GetNetworkReject(a, err)
    \/ \E a \in Attempts : CallDisconnect(a)
    \/ \E a \in Attempts : DisconnectResolve(a)
    \/ \E a \in Attempts, err \in ProviderErrors : DisconnectReject(a, err)
    \/ \E a \in Attempts : CallSignMessage(a)
    \/ \E a \in Attempts : SignMessageResolve(a)
    \/ \E a \in Attempts, err \in ProviderErrors : SignMessageReject(a, err)

SpecSession == Init /\ [][SessionNext]_vars

-----------------------------------------------------------------------------
(* The auth modal: src/src/components/wallet/WalletAuthModal.tsx.  It is
   written against the SDK context, whose isPetraInstalled is true. *)

\* What authenticateWithWallet / linkWalletToAccount may settle with, as
\* handleSign sees it.
SignOutcomes ==
    { Ok("tok1"), Fail("Invalid signature"), Fail(UNDEF),
      Rejected("Network Error"), Rejected(UNDEF) }

\* useEffect on [isOpen, connected]
ResetEffect(m, conn) ==
    IF m.isOpen
      THEN [m EXCEPT !.step = IF conn THEN "sign" ELSE "connect",
                     !.error = NULL, !.loading = FALSE]
      ELSE m

\* useEffect on [connected, step]
StepEffect(m, conn) ==
    IF conn /\ m.step = "connect" THEN [m EXCEPT !.step = "sign"] ELSE m

\* The parent opens the modal.
OpenModal ==
    /\ ~modal.isOpen
    /\ modal' = StepEffect(ResetEffect([modal EXCEPT !.isOpen = TRUE],
                                       isConnected), isConnected)
    /\ UNCHANGED <<walletVars, challengeVars, mem>>

\* onClose: the X button or the backdrop.
CloseModal ==
    /\ modal.isOpen
    /\ modal' = [modal EXCEPT !.isOpen = FALSE]
    /\ UNCHANGED <<walletVars, challengeVars, mem>>

\* The context's `connected` turns true (autoConnect, a connect made
\* elsewhere): the modal re-renders and both effects run.
SessionGained(acc) ==
    /\ ~isConnected
    /\ installed
    /\ wallet \in {0, acc}
    /\ wallet' = acc
    /\ isConnected' = TRUE
    /\ address' = acc
    /\ publicKey' = KeyOf(acc)
    /\ modal' = StepEffect(ResetEffect(modal, TRUE), TRUE)
    /\ UNCHANGED <<mem, challengeVars, variant, installed, isPetraInstalled,
                   isConnecting, network, mounted, token, location, att>>

\* The context's `connected` turns false (disconnect, the site revoked).
SessionLost ==
    /\ isConnected
    /\ wallet' = 0
    /\ isConnected' = FALSE
    /\ address' = 0
    /\ publicKey' = 0
    /\ modal' = StepEffect(ResetEffect(modal, FALSE), FALSE)
    /\ UNCHANGED <<mem, challengeVars, variant, installed, isPetraInstalled,
                   isConnecting, network, mounted, token, location, att>>

\* handleConnect up to `await connect('Petra')`; the button is rendered in
\* the connect step and disabled while connecting.
HandleConnect ==
    /\ modal.isOpen /\ modal.step = "connect"
    /\ ~isConnecting
    /\ ~isConnected
    /\ modal.connectPending = 0
    /\ isConnecting' = TRUE
    /\ modal' = [modal EXCEPT !.error = NULL, !.connectPending = @ + 1]
    /\ UNCHANGED <<mem, challengeVars, variant, installed, wallet, isPetraInstalled,
                   isConnected, address, publicKey, network, mounted, token,
                   location, att>>

\* connect resolved: the adapter's state turns connected (the effects run)
\* and handleConnect goes on to setStep('sign').
HandleConnectResolve(acc) ==
    /\ modal.connectPending > 0
    /\ installed
    /\ wallet \in {0, acc}
    /\ wallet' = acc
    /\ isConnecting' = FALSE
    /\ isConnected' = TRUE
    /\ address' = acc
    /\ publicKey' = KeyOf(acc)
    /\ LET m == IF isConnected THEN modal
                              ELSE StepEffect(ResetEffect(modal, TRUE), TRUE)
       IN modal' = [m EXCEPT !.step = "sign", !.connectPending = @ - 1]
    /\ UNCHANGED <<mem, challengeVars, variant, installed, isPetraInstalled,
                   network, mounted, token, location, att>>

\* connect rejected: handleConnect's catch
HandleConnectReject(err) ==
    /\ modal.connectPending > 0
    /\ isConnecting' = FALSE
    /\ modal' = [modal EXCEPT !.error = Or(err.message, "Failed to connect wallet"),
                              !.connectPending = @ - 1]
    /\ UNCHANGED <<mem, challengeVars, variant, installed, wallet, isPetraInstalled,
                   isConnected, address, publicKey, network, mounted, token,
                   location, att>>

\* handleSign up to its await; the button is rendered in the sign step and
\* disabled while loading.
HandleSign ==
    /\ modal.isOpen /\ modal.step = "sign"
    /\ ~modal.loading
    /\ modal.signPending + modal.timers < MaxPending
    /\ modal' = [modal EXCEPT !.loading = TRUE, !.error = NULL,
                              !.signPending = @ + 1]
    /\ UNCHANGED <<walletVars, challengeVars, mem>>

\* handleSign from the settling of its call to the end of its finally.
HandleSignSettled(res) ==
    /\ modal.signPending > 0
    /\ modal' =
         IF res.state = "rejected"
           THEN [modal EXCEPT !.error = Or(res.error, "Something went wrong"),
                              !.step = "error", !.loading = FALSE,
                              !.signPending = @ - 1]
         ELSE IF res.success
           THEN [modal EXCEPT !.step = "success", !.loading = FALSE,
                              !.timers = @ + 1, !.signPending = @ - 1]
         ELSE [modal EXCEPT !.error = Or(res.error, "Authentication failed"),
                            !.step = "error", !.loading = FALSE,
                            !.signPending = @ - 1]
    /\ UNCHANGED <<walletVars, challengeVars, mem>>

\* The 1500 ms timer set on success: onClose() (and navigate).
SuccessTimer ==
    /\ modal.timers > 0
    /\ modal' = [modal EXCEPT !.timers = @ - 1, !.isOpen = FALSE]
    /\ UNCHANGED <<walletVars, challengeVars, mem>>

\* Mutant: the retry goes back a step and leaves the error text in place.
RetriedKeepsError(m, conn) ==
    [m EXCEPT !.step = IF conn THEN "sign" ELSE "connect"]

\* handleRetry
Retried(m, conn) ==
    [m EXCEPT !.error = NULL, !.step = IF conn THEN "sign" ELSE "connect"]

\* The Try Again button, rendered whenever the step is 'error'.
HandleRetry ==
    /\ modal.isOpen /\ modal.step = "error"
    /\ modal' = StepEffect(Retried(modal, isConnected), isConnected)
    /\ UNCHANGED <<walletVars, challengeVars, mem>>

\* The text of the error step: {error || 'Something went wrong. ...'}
ErrorText(m) == Or(m.error, "Something went wrong. Please try again.")

ModalNext ==
    \/ OpenModal
    \/ CloseModal
    \/ \E acc \in Accounts : SessionGained(acc)
    \/ SessionLost
    \/ HandleConnect
    \/ \E acc \in Accounts : HandleConnectResolve(acc)
    \/ \E err \in ProviderErrors : HandleConnectReject(err)
    \/ HandleSign
    \/ \E res \in SignOutcomes : HandleSignSettled(res)
    \/ SuccessTimer
    \/ HandleRetry

SpecModal == Init /\ [][ModalNext]_vars

-----------------------------------------------------------------------------
(* The challenge messages *)

\* The wallet addresses a challenge may be built for.
Addresses == {"0x1", "0xabc", "0xABC"}

\* Mutant: the login challenge is built from the link template.
generateAuthMessageLinkText(addr, ts) ==
    "Link this wallet to your LifeVault account.\n\nWallet: " \o addr
    \o "\nTimestamp: " \o ToString(ts)

\* sdk: generateAuthMessage, with Date.now() = ts
generateAuthMessage(addr, ts) ==
    "Sign this message to authenticate with LifeVault.\n\nWallet: " \o addr
    \o "\nTimestamp: " \o ToString(ts)
    \o "\n\nThis signature will not trigger any blockchain transaction or cost any gas fees."

\* linkWalletToAccount's message (the same text in both contexts)
LinkMessage(addr, ts) ==
    "Link this wallet to your LifeVault account.\n\nWallet: " \o addr
    \o "\nTimestamp: " \o ToString(ts)

Tick ==
    /\ now < MaxTime
    /\ now' = now + 1
    /\ UNCHANGED <<walletVars, mem, modal, loginMsg, linkMsg, issued>>

BuildLogin(addr) ==
    /\ loginMsg' = [address |-> addr, message |-> generateAuthMessage(addr, now)]
    /\ UNCHANGED <<walletVars, mem, modal, now, linkMsg, issued>>

BuildLink(addr) ==
    /\ linkMsg' = [address |-> addr, message |-> LinkMessage(addr, now)]
    /\ UNCHANGED <<walletVars, mem, modal, now, loginMsg, issued>>

ChallengeNext ==
    \/ Tick
    \/ \E addr \in Addresses : BuildLogin(addr)
    \/ \E addr \in Addresses : BuildLink(addr)

SpecChallenge == Init /\ [][ChallengeNext]_vars

\* What Math.random().toString(36).substring(2) may return: base-36 digits,
\* none at all when Math.random() returns 0.
RandomStrings == {"", "k", "k2"}

\* sdk signMessage: Date.now().toString() + Math.random().toString(36).substring(2)
Nonce(ts, rand) == ToString(ts) \o rand

\* signMessage builds the nonce of one sign request.
IssueNonce(rand) ==
    /\ Len(issued) < MaxSigns
    /\ issued' = Append(issued, [ts |-> now, rand |-> rand,
                                 nonce |-> Nonce(now, rand)])
    /\ UNCHANGED <<walletVars, mem, modal, now, loginMsg, linkMsg>>

NonceNext ==
    \/ Tick
    \/ \E rand \in RandomStrings : IssueNonce(rand)

SpecNonce == Init /\ [][NonceNext]_vars

-----------------------------------------------------------------------------
(* The memories hook: src/src/hooks/useMemories.js                         *)
(*                                                                         *)
(* Every call of fetchMemories, fetchStats, createMemory or deleteMemory   *)
(* takes the next free slot of mem.calls; `seq` numbers the getAll         *)
(* requests in the order they were issued.  A call keeps the response it   *)
(* received, so that the list can be compared with it afterwards.  The     *)
(* fetchStats calls nobody awaits (mount effect, refresh) are counted in   *)
(* statsPending.                                                           *)

Calls == 1..MaxCalls
MemoryIds == 1..NumMemories

\* The lists the backend may answer with: memories of distinct ids.
Lists ==
    { l \in UNION { [1..n -> MemoryIds] : n \in 0..NumMemories } :
        \A i, j \in 1..Len(l) : i # j => l[i] # l[j] }

\* Answers to memoryAPI.getAll: {data: {memories, pagination}}, or a body
\* without data.
GetAllResponses ==
    { [ body |-> "data", memories |-> l,
        pagination |-> [page |-> 1, limit |-> 20, total |-> Len(l),
                        pages |-> IF Len(l) = 0 THEN 0 ELSE 1] ] : l \in Lists }
    \cup { [body |-> "nodata", memories |-> <<>>, pagination |-> <<>>] }

\* Answers to memoryAPI.getStats
StatsValues == {"s1"}

FreeCall(c) ==
    /\ mem.calls[c].kind = "none"
    /\ \A d \in Calls : d < c => mem.calls[d].kind # "none"

\* The hook's requests go through the api client: a failed one passes the
\* response interceptor before the hook's catch sees it.
Intercepted(err) ==
    /\ token' = ResponseInterceptor(err, token, location).token
    /\ location' = ResponseInterceptor(err, token, location).location
    /\ UNCHANGED <<challengeVars, modal, variant, installed, wallet,
                   isPetraInstalled, isConnected, isConnecting, address,
                   publicKey, network, mounted, att>>

Untouched == UNCHANGED <<walletVars, challengeVars, modal>>

\* fetchMemories up to its await: setLoading(true), setError(null), getAll.
BeginFetch(m, c) ==
    [m EXCEPT !.loading = TRUE, !.error = NULL, !.fetches = @ + 1,
              !.calls[c].pc = "fetching", !.calls[c].seq = m.fetches + 1]

\* `await fetchStats()` in createMemory and deleteMemory.
BeginStats(m, c) == [m EXCEPT !.calls[c].pc = "stats"]

\* fetchStats() called without await.
FetchStats(m) == [m EXCEPT !.statsPending = @ + 1]

\* A call returns.
Return(m, c, res) == [m EXCEPT !.calls[c].pc = "done", !.calls[c].result = res]

\* The mount effect: fetchMemories(); fetchStats();
MountEffect(c) ==
    /\ ~mem.mounted
    /\ FreeCall(c)
    /\ mem' = FetchStats(BeginFetch([mem EXCEPT !.mounted = TRUE,
                                                !.calls[c].kind = "fetch"], c))
    /\ Untouched

\* refresh: fetchMemories(); fetchStats();
Refresh(c) ==
    /\ mem.mounted
    /\ FreeCall(c)
    /\ mem' = FetchStats(BeginFetch([mem EXCEPT !.calls[c].kind = "fetch"], c))
    /\ Untouched

\* fetchMemories called by the component.
FetchMemories(c) ==
    /\ mem.mounted
    /\ FreeCall(c)
    /\ mem' = BeginFetch([mem EXCEPT !.calls[c].kind = "fetch"], c)
    /\ Untouched

\* What follows fetchMemories in its caller: createMemory goes on to
\* `await fetchStats()`.
AfterFetch(m, c) ==
    IF m.calls[c].kind = "create" THEN BeginStats(m, c)
                                  ELSE Return(m, c, Ok(UNDEF))

\* fetchMemories: the catch, then the finally.
FetchFailed(m, c, msg) ==
    AfterFetch([m EXCEPT !.error = msg, !.loading = FALSE], c)

\* getAll answered 2xx: setMemories, setPagination, then the finally.  A
\* body without data makes `response.data.data.memories` throw inside the
\* try; the error thrown has no response.
FetchResolve(c, resp) ==
    /\ mem.calls[c].pc = "fetching"
    /\ LET m == [mem EXCEPT !.calls[c].resp = resp] IN
         mem' = IF resp.body = "nodata"
                  THEN FetchFailed(m, c, "Failed to fetch memories")
                  ELSE AfterFetch([m EXCEPT !.memories = resp.memories,
                                            !.pagination = resp.pagination,
                                            !.loading = FALSE], c)
    /\ Untouched

\* getAll failed.
FetchReject(c, err) ==
    /\ mem.calls[c].pc = "fetching"
    /\ mem' = FetchFailed(mem, c, Or(err.data_message, "Failed to fetch memories"))
    /\ Intercepted(err)

\* getStats answered a fetchStats nobody awaits: setStats.
FetchStatsResolve(st) ==
    /\ mem.statsPending > 0
    /\ mem' = [mem EXCEPT !.stats = st, !.statsPending = @ - 1]
    /\ Untouched

\* getStats failed: fetchStats logs the error.
FetchStatsReject(err) ==
    /\ mem.statsPending > 0
    /\ mem' = [mem EXCEPT !.statsPending = @ - 1]
    /\ Intercepted(err)

\* getStats answered the fetchStats that createMemory or deleteMemory
\* awaits: setStats, and the call returns success.
StatsResolve(c, st) ==
    /\ mem.calls[c].pc = "stats"
    /\ mem' = Return([mem EXCEPT !.stats = st], c, Ok(UNDEF))
    /\ Untouched

\* getStats failed: fetchStats logs the error and returns; the call
\* still returns success.
StatsReject(c, err) ==
    /\ mem.calls[c].pc = "stats"
    /\ mem' = Return(mem, c, Ok(UNDEF))
    /\ Intercepted(err)

\* createMemory up to `await memoryAPI.create(data)`.
CreateMemory(c) ==
    /\ mem.mounted
    /\ FreeCall(c)
    /\ mem' = [mem EXCEPT !.calls[c].kind = "create", !.calls[c].pc = "creating"]
    /\ Untouched

\* create answered 2xx: `await fetchMemories()`.
CreateResolve(c) ==
    /\ mem.calls[c].pc = "creating"
    /\ mem' = BeginFetch(mem, c)
    /\ Untouched

CreateReject(c, err) ==
    /\ mem.calls[c].pc = "creating"
    /\ mem' = Return(mem, c, Fail(Or(err.data_message, "Failed to create memory")))
    /\ Intercepted(err)

\* deleteMemory up to `await memoryAPI.delete(id)`.
DeleteMemory(c, id) ==
    /\ mem.mounted
    /\ FreeCall(c)
    /\ mem' = [mem EXCEPT !.calls[c].kind = "delete", !.calls[c].pc = "deleting",
                          !.calls[c].id = id]
    /\ Untouched

\* prev.filter(m => m._id !== id)
FilterOut(list, id) == SelectSeq(list, LAMBDA m : m # id)

\* delete answered 2xx: setMemories(prev => ...), then `await fetchStats()`.
DeleteResolve(c) ==
    /\ mem.calls[c].pc = "deleting"
    /\ mem' = BeginStats([mem EXCEPT !.memories = FilterOut(@, mem.calls[c].id)], c)
    /\ Untouched

\* Mutant: the list is filtered although the delete failed.
DeleteFailedFilters(m, c, err) ==
    Return([m EXCEPT !.memories = FilterOut(@, m.calls[c].id)], c,
           Fail(Or(err.data_message, "Failed to delete memory")))

\* deleteMemory's catch.
DeleteFailed(m, c, err) ==
    Return(m, c, Fail(Or(err.data_message, "Failed to delete memory")))

DeleteReject(c, err) ==
    /\ mem.calls[c].pc = "deleting"
    /\ mem' = DeleteFailed(mem, c, err)
    /\ Intercepted(err)

MemoriesNext ==
    \/ \E c \in Calls : MountEffect(c)
    \/ \E c \in Calls : Refresh(c)
    \/ \E c \in Calls : FetchMemories(c)
    \/ \E c \in Calls : CreateMemory(c)
    \/ \E c \in Calls, id \in MemoryIds : DeleteMemory(c, id)
    \/ \E c \in Calls, resp \in GetAllResponses : FetchResolve(c, resp)
    \/ \E c \in Calls, err \in HttpErrors : FetchReject(c, err)
    \/ \E st \in StatsValues : FetchStatsResolve(st)
    \/ \E err \in HttpErrors : FetchStatsReject(err)
    \/ \E c \in Calls, st \in StatsValues : StatsResolve(c, st)
    \/ \E c \in Calls, err \in HttpErrors : StatsReject(c, err)
    \/ \E c \in Calls : CreateResolve(c)
    \/ \E c \in Calls, err \in HttpErrors : CreateReject(c, err)
    \/ \E c \in Calls : DeleteResolve(c)
    \/ \E c \in Calls, err \in HttpErrors : DeleteReject(c, err)

SpecMemories == Init /\ [][MemoriesNext]_vars

-----------------------------------------------------------------------------
(* Properties *)

InFlight(a) == att[a].kind \in Kinds /\ att[a].pc \notin {"idle", "done"}

ExternalCalls(a) == att[a].connectCalls + att[a].signCalls + att[a].postCalls

\* C1: at most one attempt of a kind is in flight: two calls of the same
\* kind never each drive a connect/sign/verify sequence of their own at
\* the same time.
C1_AtMostOneAttemptPerKind ==
    \A a, b \in Attempts :
        (a # b /\ att[a].kind = att[b].kind /\ InFlight(a) /\ InFlight(b))
            => (ExternalCalls(a) = 0 \/ ExternalCalls(b) = 0)

\* C2: an attempt whose POST was pending when the provider reported an
\* account change ends in a failure.
C2_AccountChangeAbortsAttempt ==
    \A a \in Attempts :
        (att[a].kind \in Kinds /\ att[a].pc = "done" /\ att[a].changedInVerify)
            => ~att[a].result.success

\* C3: the promise of authenticateWithWallet / linkWalletToAccount never
\* rejects: once the call is over it has resolved to a result object,
\* whichever external call failed.
C3_NeverRejects ==
    \A a \in Attempts :
        att[a].kind \in Kinds =>
            /\ att[a].result.state # "rejected"
            /\ att[a].pc = "done" => att[a].result.state = "resolved"

C3_Witness ==
    \E a, b \in Attempts :
        /\ att[a].kind \in Kinds /\ att[a].pc = "done"
        /\ att[a].failStep = "sign" /\ att[a].result.state = "resolved"
        /\ att[b].kind \in Kinds /\ att[b].pc = "done"
        /\ att[b].failStep = "post" /\ att[b].result.state = "resolved"

\* C4: when an attempt started with a connected wallet has its sign request
\* rejected, it ends in a failure result without a POST, and the step
\* leaves the wallet session as it was.
C4_SignRejectionKeepsSession ==
    [][ \A a \in Attempts :
          ( /\ att[a].kind \in Kinds
            /\ att[a].capConnected /\ att[a].capAddress # 0
            /\ att[a].pc = "signing" /\ att'[a].pc = "done" )
          => /\ att'[a].result.state = "resolved"
             /\ ~att'[a].result.success
             /\ att'[a].postCalls = 0
             /\ isConnected' = isConnected
             /\ address' = address
             /\ publicKey' = publicKey ]_vars

C4_Witness ==
    \E a \in Attempts :
        /\ att[a].kind = "login" /\ att[a].pc = "done"
        /\ att[a].connectCalls = 0 /\ att[a].failStep = "sign"
        /\ ~att[a].result.success /\ att[a].postCalls = 0
        /\ isConnected /\ address # 0

\* C5: when the backend answers a login POST with {data:{token:T}}, the
\* call returns {success:true, token:T} and the token slot holds T as it
\* returns.
C5_LoginStoresToken ==
    [][ \A a \in Attempts : \A resp \in OkResponses :
          (att[a].kind = "login" /\ resp.body = "token" /\ PostOk(a, resp))
          => /\ att'[a].pc = "done"
             /\ att'[a].result = Ok(resp.token)
             /\ token' = resp.token ]_vars

C5_Witness ==
    \E a \in Attempts :
        /\ att[a].kind = "login" /\ att[a].pc = "done"
        /\ installed /\ att[a].connectCalls = 1 /\ att[a].signCalls = 1
        /\ att[a].postCalls = 1
        /\ att[a].result.success /\ att[a].result.token \in Tokens
        /\ token = att[a].result.token

\* C6: without a wallet extension, authenticateWithWallet never invokes
\* the provider's connect.
C6_NotInstalledNoConnect ==
    \A a \in Attempts :
        (att[a].kind = "login" /\ ~installed) => att[a].connectCalls = 0

\* C7: a link attempt drives sign and verify itself, and no step of it
\* other than a rejected POST changes the token slot; in particular the
\* slot is untouched when it returns {success:true}.
C7_LinkKeepsToken ==
    [][ \A a \in Attempts :
          (att[a].kind = "link" /\ att'[a] # att[a])
          => /\ att'[a].failStep # "post" => token' = token
             /\ (att'[a].pc = "done" /\ att'[a].result.success)
                  => /\ att'[a].signCalls = 1
                     /\ att'[a].postCalls = 1
                     /\ token' = token ]_vars

C7_Witness ==
    \E a \in Attempts :
        /\ att[a].kind = "link" /\ att[a].pc = "done"
        /\ att[a].result.success
        /\ att[a].connectCalls = 1 /\ att[a].signCalls = 1
        /\ att[a].postCalls = 1
        /\ \A b \in Attempts : att[b].kind \in {"none", "link"}
        /\ token = NoToken

\* C8: a failure result always carries a defined, non-empty error message.
C8_ErrorMessageDefined ==
    \A a \in Attempts :
        ( /\ att[a].kind \in Kinds /\ att[a].pc = "done"
          /\ att[a].result.state = "resolved" /\ ~att[a].result.success )
        => (att[a].result.error # UNDEF /\ att[a].result.error # "")

\* C9: whenever a response with status 401 comes back through the api
\* client, the token is gone from the store, the location is /login, and
\* the caller still sees the error (a rejected promise; a failure result
\* for a wallet attempt, whose catch receives it).
C9_UnauthorizedClearsSession ==
    [][ \A a \in Attempts : \A err \in HttpErrors :
          (err.status = Unauthorized /\ PostError(a, err))
          => /\ token' = NoToken
             /\ location' = "/login"
             /\ att'[a].pc = "done"
             /\ IF att[a].kind \in Kinds
                  THEN att'[a].result.state = "resolved" /\ ~att'[a].result.success
                  ELSE att'[a].result.state = "rejected" ]_vars

C9_Witness ==
    \E a, b \in Attempts :
        /\ att[a].kind = "login" /\ att[a].pc = "done" /\ att[a].result.success
        /\ att[b].kind = "request" /\ att[b].pc = "done"
        /\ att[b].result.state = "rejected"
        /\ token = NoToken /\ location = "/login"

\* C10: for one address, the login challenge and the link challenge are
\* never the same text, whatever the times they were built at.
C10_PurposeSeparation ==
    (loginMsg # NoMessage /\ linkMsg # NoMessage
        /\ loginMsg.address = linkMsg.address)
    => loginMsg.message # linkMsg.message

C10_Witness ==
    /\ loginMsg # NoMessage /\ linkMsg # NoMessage
    /\ loginMsg.address = linkMsg.address
    /\ loginMsg.message = generateAuthMessage(loginMsg.address, now)
    /\ linkMsg.message = LinkMessage(linkMsg.address, now)

\* C17: connect attempts are serialized: at no time are two provider
\* connect calls in flight at once, whichever operations they come from.
C17_ConnectSerialized ==
    Cardinality({a \in Attempts : att[a].pc = "connecting"}) <= 1

\* C18: a login called with no wallet session whose provider connect
\* succeeded goes on, in the same call, to ask the wallet for a signature.
C18_ConnectThenSign ==
    \A a \in Attempts :
        ( /\ att[a].kind = "login"
          /\ att[a].pc = "done"
          /\ installed
          /\ att[a].connectCalls = 1
          /\ att[a].failStep # "connect" )
        => att[a].signCalls = 1

\* C19: a login asks the provider to connect if and only if the session it
\* was called with was not active; called with an active session its first
\* provider call is the sign request.
C19_ConnectIffNoSession ==
    \A a \in Attempts :
        (att[a].kind = "login" /\ att[a].pc \notin {"idle", "done"})
        => /\ (att[a].connectCalls = 1)
                 <=> ~(att[a].capConnected /\ att[a].capAddress # 0)
           /\ att[a].connectCalls = 0 => att[a].signCalls = 1

C19_Witness ==
    \E a, b \in Attempts :
        /\ att[a].kind = "login" /\ att[a].pc = "signing"
        /\ att[a].capConnected /\ att[a].connectCalls = 0
        /\ att[b].kind = "login" /\ att[b].pc = "connecting"
        /\ ~att[b].capConnected /\ att[b].connectCalls = 1

\* C20: the step on which the provider's connect rejects ends the login or
\* link attempt in a failure result, with no sign request and no POST made,
\* and leaves the wallet session as it was: disconnected.
C20_ConnectFailureEndsAttempt ==
    [][\A a \in Attempts : \A err \in ProviderErrors :
         (att[a].kind \in Kinds /\ ConnectReject(a, err))
         => /\ att'[a].pc = "done"
            /\ att'[a].result.state = "resolved"
            /\ ~att'[a].result.success
            /\ att'[a].signCalls = 0 /\ att'[a].postCalls = 0
            /\ <<isConnected, address, publicKey, network>>'
                 = <<isConnected, address, publicKey, network>>
       ]_vars

C20_Witness ==
    \E a \in Attempts :
        /\ att[a].kind \in Kinds /\ att[a].pc = "done"
        /\ att[a].failStep = "connect" /\ att[a].connectCalls = 1
        /\ ~att[a].result.success
        /\ ~isConnected /\ address = 0

\* C15: the endpoint follows the kind of the attempt and nothing else: a
\* login posts to /auth/wallet, a link to /auth/link-wallet, and the body
\* of either has exactly the fields address, publicKey, signature, message
\* and nonce.
C15_EndpointByKind ==
    \A a \in Attempts :
        (att[a].kind \in Kinds /\ att[a].postCalls > 0 /\ att[a].pc = "verifying")
        => /\ att[a].kind = "login" => att[a].post.url = "/auth/wallet"
           /\ att[a].kind = "link" => att[a].post.url = "/auth/link-wallet"
           /\ DOMAIN att[a].post.body
                = {"address", "publicKey", "signature", "message", "nonce"}
           /\ att[a].postCalls = 1

C15_Witness ==
    \E a, b \in Attempts :
        /\ att[a].kind = "login" /\ att[a].pc = "verifying"
        /\ att[a].post.url = "/auth/wallet"
        /\ att[b].kind = "link" /\ att[b].pc = "verifying"
        /\ att[b].post.url = "/auth/link-wallet"
        /\ att[a].post.body.address = att[b].post.body.address

\* C12: disconnect is idempotent: every disconnect call, made with or
\* without a session, returns without an error and leaves no session.
C12_DisconnectIdempotent ==
    \A a \in Attempts :
        (att[a].kind = "disconnect" /\ att[a].pc = "done")
        => /\ att[a].result.state = "resolved"
           /\ ~isConnected /\ address = 0 /\ publicKey = 0

\* C13: the step on which disconnect() completes leaves every field of the
\* session cleared: not connected, no address, no public key, no network.
C13_DisconnectClearsSession ==
    [][\A a \in Attempts :
         DisconnectResolve(a)
         => /\ ~isConnected' /\ address' = 0 /\ publicKey' = 0
            /\ network' = 0
       ]_vars

C16_ErrorStepRetryable ==
    /\ [](modal.isOpen /\ modal.step = "error"
           => /\ modal.error # NULL
              /\ ErrorText(modal) = modal.error
              /\ ENABLED HandleRetry)
    /\ [][HandleRetry
           => /\ modal'.error = NULL
              /\ modal'.step = IF isConnected THEN "sign" ELSE "connect"
              /\ modal'.isOpen
              /\ (modal'.step = "sign" => ~modal'.loading)
         ]_vars

C16_Witness ==
    /\ modal.isOpen /\ modal.step = "error"
    /\ modal.error = "Invalid signature"
    /\ ~isConnected /\ modal.signPending = 1
    /\ ENABLED HandleRetry

\* C11: nonces never repeat: every sign request is issued with a nonce
\* different from the nonce of every earlier request.
C11_NoncesNeverRepeat ==
    \A i, j \in 1..Len(issued) :
        i # j => issued[i].nonce # issued[j].nonce

\* C23: nothing is retried: within one login or link call the provider's
\* connect, the provider's sign and the POST are each made at most once.
C23_NoAutomaticRetry ==
    \A a \in Attempts :
        att[a].kind \in Kinds
        => /\ att[a].connectCalls <= 1
           /\ att[a].signCalls <= 1
           /\ att[a].postCalls <= 1

C23_Witness ==
    \E a \in Attempts :
        /\ att[a].kind \in Kinds /\ att[a].pc = "done"
        /\ ~att[a].result.success
        /\ att[a].connectCalls = 1 /\ att[a].signCalls = 1
        /\ att[a].postCalls = 1

\* C24: the steps of an attempt come in order: no POST unless the sign of
\* the same attempt has resolved, no sign request without an address, no
\* stored token or success before the answer to the POST.
C24_StepOrder ==
    \A a \in Attempts :
        att[a].kind \in Kinds
        => /\ att[a].postCalls > 0
                => att[a].signCalls > 0 /\ att[a].pc \in {"verifying", "done"}
           /\ att[a].pc \in {"connecting", "getnet", "delay", "signing"}
                => att[a].postCalls = 0
           /\ att[a].pc \in {"connecting", "getnet", "delay"}
                => att[a].signCalls = 0
           /\ att[a].pc = "signing" => att[a].currentAddress # 0
           /\ att[a].failStep \in {"connect", "noaddress"}
                => att[a].signCalls = 0
           /\ att[a].failStep = "sign" => att[a].postCalls = 0
           /\ att[a].result.success
                => att[a].pc = "done" /\ att[a].postCalls = 1

C24_Witness ==
    \E a \in Attempts :
        /\ att[a].kind = "login" /\ att[a].pc = "done"
        /\ att[a].result.success /\ token = att[a].result.token
        /\ att[a].connectCalls = 1 /\ att[a].signCalls = 1
        /\ att[a].postCalls = 1

\* C25: the proof in a request body is the one sign result of the attempt:
\* its signature, message and nonce are those the sign call resolved with,
\* and the address of the body is the address written in the signed message.
C25_ProofMatchesChallenge ==
    \A a \in Attempts :
        (att[a].kind \in Kinds /\ att[a].pc = "verifying")
        => /\ att[a].signed # NoSignResult
           /\ att[a].post.body.signature = att[a].signed.signature
           /\ att[a].post.body.message = att[a].signed.fullMessage
           /\ att[a].post.body.nonce = att[a].signed.nonce
           /\ att[a].post.body.address = att[a].signed.fullMessage.address
           /\ att[a].signed.fullMessage.purpose = att[a].kind

C25_Witness ==
    \E a \in Attempts :
        /\ att[a].kind = "login" /\ att[a].pc = "verifying"
        /\ att[a].post.body.nonce = "n2"
        /\ att[a].post.body.address = att[a].signed.fullMessage.address
        /\ address # att[a].post.body.address

\* C26: hand-rolled context: the address and the public key of one request
\* body belong to the same account.
C26_AddressAndKeySameAccount ==
    \A a \in Attempts :
        (variant = "hand" /\ att[a].kind \in Kinds /\ att[a].pc = "verifying")
        => att[a].post.body.publicKey = KeyOf(att[a].post.body.address)

\* C21: a token is written to the store only by the step that handles the
\* 2xx answer to the /auth/wallet POST of a login, which returns success,
\* and the token written is the one of that answer; a rejected login POST
\* gives a failure result and writes no token.
C21_TokenOnlyFromLogin ==
    [][ /\ (token' # token /\ token' # NoToken)
            => \E a \in Attempts : \E resp \in OkResponses :
                  /\ att[a].kind = "login"
                  /\ att[a].post.url = "/auth/wallet"
                  /\ PostOk(a, resp)
                  /\ att'[a].result.success
                  /\ token' = ToStorage(resp.token)
        /\ \A a \in Attempts : \A err \in HttpErrors :
              (att[a].kind = "login" /\ PostError(a, err))
              => /\ ~att'[a].result.success
                 /\ token' \in {token, NoToken}
      ]_vars

C21_Witness ==
    \E a, b \in Attempts :
        /\ att[a].kind = "login" /\ att[a].pc = "done"
        /\ att[a].failStep = "post" /\ ~att[a].result.success
        /\ att[b].kind = "login" /\ att[b].pc = "done"
        /\ att[b].result.success /\ att[b].result.token = "tok2"
        /\ token = "tok2"

\* C22: an account-change event heard by the hand-rolled context while a
\* session is held, in whatever state it arrives, leaves the wallet session cleared and every in-flight
\* attempt ended in a failure.
C22_ChangeInvalidatesSession ==
    [][ \A acc \in 0..NumAccounts :
          (variant = "hand" /\ isConnected /\ isPetraInstalled
                             /\ AccountChange(acc))
          => /\ ~isConnected' /\ address' = 0 /\ publicKey' = 0
             /\ \A a \in Attempts :
                   InFlight(a)
                   => att'[a].pc = "done" /\ ~att'[a].result.success
      ]_vars

\* C27 as stated: the step on which a login or link call returns
\* success:false leaves the stored token as it was.
C27_FailureKeepsToken ==
    [][ \A a \in Attempts :
          ( /\ att[a].kind \in Kinds /\ att[a].pc # "done"
            /\ att'[a].pc = "done" /\ ~att'[a].result.success )
          => token' = token
      ]_vars

\* C27, amended: the step on which a login or link call returns
\* success:false leaves the stored token as it was, unless the failure is
\* a 401 answer to its POST, which removes the token.
C27_FailureKeepsTokenUnless401 ==
    [][ \A a \in Attempts :
          ( /\ att[a].kind \in Kinds /\ att[a].pc # "done"
            /\ att'[a].pc = "done" /\ ~att'[a].result.success )
          => \/ token' = token
             \/ /\ token' = NoToken
                /\ \E err \in HttpErrors :
                      err.status = Unauthorized /\ PostError(a, err)
      ]_vars

C27_Witness ==
    \E a, b \in Attempts :
        /\ att[a].kind = "login" /\ att[a].pc = "done"
        /\ att[a].failStep = "post" /\ ~att[a].result.success
        /\ att[b].kind = "link" /\ att[b].pc = "done"
        /\ att[b].failStep = "sign" /\ ~att[b].result.success
        /\ token = "tok0" /\ location = "/"

\* C28: the modal's loading flag is true exactly while a handleSign call is
\* in flight, so that no second handleSign starts while one is pending.
C28_LoadingWhileSigning ==
    /\ modal.loading <=> modal.signPending > 0
    /\ modal.signPending <= 1

\* C29: the modal enters 'success' only as a call returns success:true,
\* enters 'error' only as a call returns success:false or throws, then with
\* an error text, and once in 'success' stays there while it is open.
C29_SuccessAndErrorSteps ==
    [][ /\ (modal'.step = "success" /\ modal.step # "success")
            => \E res \in SignOutcomes :
                  HandleSignSettled(res) /\ res.state = "resolved" /\ res.success
        /\ (modal'.step = "error" /\ modal.step # "error")
            => /\ \E res \in SignOutcomes :
                     HandleSignSettled(res) /\ ~res.success
               /\ modal'.error # NULL
        /\ (modal.step = "success" /\ modal.isOpen /\ modal'.isOpen)
            => modal'.step = "success"
      ]_vars

\* C30: hand-rolled context: whatever operations have run, and however
\* interleaved, isConnected is true exactly when address is set, and
\* address is set exactly when publicKey is.
C30_SessionFieldsConsistent ==
    variant = "hand"
    => /\ isConnected <=> address # 0
       /\ address # 0 <=> publicKey # 0

C30_Witness ==
    \E a, b \in Attempts :
        /\ variant = "hand" /\ mounted
        /\ att[a].kind = "disconnect" /\ att[a].pc = "done"
        /\ att[b].kind = "connect" /\ att[b].pc = "done"
        /\ att[b].result.success
        /\ isConnected /\ address = 2 /\ publicKey = KeyOf(2)

\* C31: hand-rolled context: isConnecting is true exactly while some
\* connect() call is pending (awaiting the provider's connect or the
\* getNetwork that follows it), also when several connect() calls overlap.
C31_ConnectingWhileConnectPending ==
    variant = "hand"
    => (isConnecting <=> \E a \in Attempts : att[a].pc \in {"connecting", "getnet"})

\* C32: a request leaves the api client with an Authorization header
\* exactly when localStorage holds a token at that moment, and the header
\* is "Bearer " followed by the token stored then, not one a 401 removed or
\* a later login replaced.
C32_HeaderCarriesStoredToken ==
    [][ \A a \in Attempts :
          (att[a].pc # "verifying" /\ att'[a].pc = "verifying")
          => /\ att'[a].authorization # NoHeader <=> token # NoToken
             /\ token # NoToken => att'[a].authorization = "Bearer " \o token ]_vars

C32_Witness ==
    \E a, b \in Attempts :
        /\ att[b].kind = "login" /\ att[b].pc = "done"
        /\ att[b].result.success /\ att[b].result.token = "tok2"
        /\ att[a].kind = "request" /\ att[a].pc = "verifying"
        /\ att[a].authorization = "Bearer tok2"
        /\ token = "tok2"

\* The ids of a list of memories.
Ids(list) == { list[i] : i \in 1..Len(list) }

\* C33: deleteMemory(id) takes exactly the memory with that id out of the
\* list, in the step in which the backend's delete succeeded, and then
\* returns success; when the delete fails the list stays as it is and the
\* call resolves to {success: false, message} with a message.  Nothing
\* but a delete that succeeded or a fetch that answered changes the list.
C33_DeleteOnlyAfterBackend ==
    [][ /\ \A c \in Calls :
             (mem.calls[c].kind = "delete" /\ mem'.calls[c].pc # mem.calls[c].pc)
             => LET id == mem.calls[c].id IN
                CASE mem'.calls[c].pc = "stats" ->
                       /\ Ids(mem'.memories) = Ids(mem.memories) \ {id}
                       /\ Len(mem'.memories) =
                            Len(mem.memories) - (IF id \in Ids(mem.memories) THEN 1 ELSE 0)
                  [] mem.calls[c].pc = "deleting" ->
                       /\ mem'.memories = mem.memories
                       /\ mem'.calls[c].pc = "done"
                       /\ mem'.calls[c].result.state = "resolved"
                       /\ ~mem'.calls[c].result.success
                       /\ mem'.calls[c].result.error \notin {UNDEF, NULL, ""}
                  [] OTHER ->
                       /\ mem'.memories = mem.memories
                       /\ mem'.calls[c].pc = "done"
                       /\ mem'.calls[c].result.state = "resolved"
                       /\ mem'.calls[c].result.success
        /\ mem'.memories # mem.memories
             => \E c \in Calls :
                  \/ mem.calls[c].pc = "fetching" /\ mem'.calls[c].pc # "fetching"
                  \/ /\ mem.calls[c].kind = "delete"
                     /\ mem.calls[c].pc = "deleting" /\ mem'.calls[c].pc = "stats" ]_vars

C33_Witness ==
    \E c, d \in Calls :
        /\ mem.calls[d].kind = "fetch" /\ mem.calls[d].pc = "done"
        /\ mem.calls[d].resp.memories = <<1, 2>>
        /\ mem.calls[c].kind = "delete" /\ mem.calls[c].pc = "done"
        /\ mem.calls[c].id = 1 /\ mem.calls[c].result.success
        /\ mem.memories = <<2>>

\* C34: when no getAll is pending any more (and no delete has touched the
\* list), the list and the pagination are those of the answer to the
\* getAll issued last, if it answered with data; and loading is false
\* only when no getAll is pending.
C34_LatestFetchWins ==
    /\ ( /\ \A c \in Calls : mem.calls[c].pc # "fetching"
         /\ \A c \in Calls : mem.calls[c].kind # "delete" )
       => \A c \in Calls :
            ( /\ mem.calls[c].seq = mem.fetches /\ mem.fetches > 0
              /\ mem.calls[c].resp.body = "data" )
            => /\ mem.memories = mem.calls[c].resp.memories
               /\ mem.pagination = mem.calls[c].resp.pagination
    /\ ~mem.loading => \A c \in Calls : mem.calls[c].pc # "fetching"
====
